---- MODULE Spec2Model ----
(***************************************************************************)
(* EcoFinds: the two marketplace applications of the repository.           *)
(*   variant "A" is src/app.py: products can be edited and deleted, the    *)
(*     cart is the cart_item table, keyed by user.                         *)
(*   variant "B" is src/ecofinds-backend/app.py: products are only         *)
(*     created, the cart is a list kept in the browser's session cookie.   *)
(* The tables are functions from the primary key to the row.  Both         *)
(* applications run on SQLite with plain INTEGER PRIMARY KEY columns, so   *)
(* a new row takes the highest id of its table plus one (ids of deleted    *)
(* rows at the top of a table are given out again), and foreign keys are   *)
(* not enforced.  Amounts of variant B (floats with two decimals in the    *)
(* source) are counted in hundredths.                                      *)
(***************************************************************************)
EXTENDS Integers, Sequences, FiniteSets, TLC

VARIABLES variant, User, Product, CartItem, session, Order, OrderItem, resp, req

vars == <<variant, User, Product, CartItem, session, Order, OrderItem, resp, req>>
db == <<Product, CartItem, Order, OrderItem>>

\* ---------------------------------------------------------------- bounds
MaxQty == 2         \* a cart entry is not added to beyond this quantity
ProductWindow == {0, 1}  \* the product ids a run uses, from the first free one
ItemIds == {1, 2}        \* the cart_item ids a run uses
OrderIds == {1}          \* the order ids a run uses, requests one at a time
ConcOrderIds == {1, 2}   \* the order ids a run uses, requests interleaved

Users == {1, 2}
Slots == {1, 2}     \* requests in flight at once, interleaved model
Sellers == {1}      \* the users who list products
Shoppers == {2}     \* the users who add to a cart
\* the title/name and price fields of a product form, as the texts posted
Listings == {[title |-> "a", price |-> "1"], [title |-> "b", price |-> "2"]}
CategoryInputs == {"Other", "Garden"}  \* the category field of a product form
AccountIds == {1, 2}     \* the user ids a run of the signup model uses
\* the fields of a signup form, as the texts posted; email and name are the
\* sequences of their characters
DemoEmail == <<"d","e","m","o","@","e","c","o","f","i","n","d","s",".","l","o","c","a","l">>
EmailInputs == {<<"a">>, <<"A">>, <<" ", "a", " ">>, <<"b">>, <<" ">>, <<"D">> \o Tail(DemoEmail)}
NameInputs == {<<"n">>, <<" ", "m">>, <<" ">>}
PasswordInputs == {"p", ""}

\* ------------------------------------------------------------- constants
CATEGORIES ==
  {"Electronics", "Home & Kitchen", "Books", "Fashion", "Sports", "Toys", "Other"}
CATEGORIES_B == {"Home", "Fashion", "Electronics", "Outdoors", "Beauty", "Other"}

\* the demo user and the three products variant B seeds an empty database with
SeedProduct ==
  (1 :> [name |-> "Bamboo Toothbrush", category |-> "Beauty", price |-> 399, seller_id |-> 1])
  @@ (2 :> [name |-> "Reusable Water Bottle", category |-> "Outdoors", price |-> 1450, seller_id |-> 1])
  @@ (3 :> [name |-> "Organic Cotton Tote", category |-> "Fashion", price |-> 999, seller_id |-> 1])

Empty == <<>>       \* a table with no rows

\* generate_password_hash: the stored value is not the password
generate_password_hash(password) == <<"hash", password>>

\* the demo account variant B seeds an empty database with
SeedUser ==
  1 :> [email |-> DemoEmail, name |-> <<"D","e","m","o"," ","U","s","e","r">>,
        password_hash |-> generate_password_hash("demo1234")]

\* ----------------------------------------------------------------- helpers
Max(S) == CHOOSE x \in S : \A y \in S : y <= x
Min(S) == CHOOSE x \in S : \A y \in S : x <= y

\* the id SQLite gives the next row of a table
NextId(table) == IF DOMAIN table = {} THEN 1 ELSE Max(DOMAIN table) + 1

\* table with the row `id` added / removed
Insert(table, id, row) == [i \in DOMAIN table \cup {id} |-> IF i = id THEN row ELSE table[i]]
Delete(table, ids) == [i \in DOMAIN table \ ids |-> table[i]]

\* the ids of a set in ascending order (the order of an unordered SELECT)
RECURSIVE SortedIds(_)
SortedIds(S) == IF S = {} THEN <<>> ELSE <<Min(S)>> \o SortedIds(S \ {Min(S)})

\* the product ids the requests of a run address
FirstId == IF variant = "A" THEN 1 ELSE Max(DOMAIN SeedProduct)
ProductIds == {FirstId + k : k \in ProductWindow}

\* the response of a request: what was asked, by whom, about which row, and
\* the outcome (the flash message and redirect); total is the cart page's sum
Resp(op, user, id, result, total) ==
  [op |-> op, user |-> user, id |-> id, result |-> result, total |-> total]

NoReq == [pc |-> "idle"]
Idle == [s \in Slots |-> NoReq]

\* ======================================================== variant A: src/app.py

\* int(value): the texts that are integers, and the integer of each
IntOf == ("0" :> 0) @@ ("1" :> 1) @@ ("2" :> 2)

\* parse_int: a form value that is the text of an integer gives it, any
\* other text gives the default
parse_int(value, default) == IF value \in DOMAIN IntOf THEN IntOf[value] ELSE default

\* CartItem.query.filter_by(user_id=...).all(): the rows, as the session holds them
ItemRow(id) ==
  [id |-> id, user_id |-> CartItem[id].user_id,
   product_id |-> CartItem[id].product_id, quantity |-> CartItem[id].quantity]
CartItemsOf(user) ==
  LET ids == SortedIds({i \in DOMAIN CartItem : CartItem[i].user_id = user})
  IN  [k \in 1..Len(ids) |-> ItemRow(ids[k])]

\* CartItem.query.filter_by(user_id=..., product_id=...).first(): a row or None
NoItem == [id |-> 0]
FirstCartItem(user, product_id) ==
  LET ids == {i \in DOMAIN CartItem :
                CartItem[i].user_id = user /\ CartItem[i].product_id = product_id}
  IN  IF ids = {} THEN NoItem ELSE ItemRow(Min(ids))

\* item.product: the Product row the item's product_id names, if there is one
HasProduct(item) == item.product_id \in DOMAIN Product

\* CartTotal without the quantity factor
RECURSIVE CartTotalOfUnitPrices(_)
CartTotalOfUnitPrices(items) ==
  IF items = <<>> THEN 0
  ELSE (IF HasProduct(Head(items)) THEN Product[Head(items).product_id].price_rupees ELSE 0)
       + CartTotalOfUnitPrices(Tail(items))

\* cart_view: sum(i.product.price_rupees * i.quantity for i in items if i.product)
RECURSIVE CartTotal(_)
CartTotal(items) ==
  IF items = <<>> THEN 0
  ELSE LET i == Head(items)
       IN  (IF HasProduct(i) THEN Product[i.product_id].price_rupees * i.quantity ELSE 0)
           + CartTotal(Tail(items))

\* NewOrderItem without quantity=item.quantity: the column's default, 1
NewOrderItemDefaultQuantity(item, order_id) ==
  [order_id |-> order_id, product_id |-> item.product_id,
   title |-> Product[item.product_id].title,
   price_rupees |-> Product[item.product_id].price_rupees,
   quantity |-> 1]

\* the OrderItem checkout builds from a cart item
NewOrderItem(item, order_id) ==
  [order_id |-> order_id, product_id |-> item.product_id,
   title |-> Product[item.product_id].title,
   price_rupees |-> Product[item.product_id].price_rupees,
   quantity |-> item.quantity]

\* the loop of checkout: the order_item table after it
RECURSIVE AddOrderItems(_, _, _)
AddOrderItems(items, order_id, table) ==
  IF items = <<>> THEN table
  ELSE IF ~HasProduct(Head(items)) THEN AddOrderItems(Tail(items), order_id, table)
  ELSE AddOrderItems(Tail(items), order_id,
                     Insert(table, NextId(table), NewOrderItem(Head(items), order_id)))

\* the loop of checkout: the cart items it deletes
ItemsDeleted(items) == {items[k].id : k \in {j \in 1..Len(items) : HasProduct(items[j])}}

\* DeleteProduct with the delete cascading to the order items of the product
DeleteProductAndOrderItems(product_id) ==
  /\ Product' = Delete(Product, {product_id})
  /\ OrderItem' = Delete(OrderItem, {l \in DOMAIN OrderItem : OrderItem[l].product_id = product_id})
  /\ UNCHANGED <<CartItem, Order>>

\* DeleteProduct with the delete cascading to the cart items of the product
DeleteProductAndCartItems(product_id) ==
  /\ Product' = Delete(Product, {product_id})
  /\ CartItem' = Delete(CartItem, {i \in DOMAIN CartItem : CartItem[i].product_id = product_id})
  /\ UNCHANGED <<Order, OrderItem>>

\* product_delete's db.session.delete(product): what the commit writes
DeleteProduct(product_id) ==
  /\ Product' = Delete(Product, {product_id})
  /\ UNCHANGED <<CartItem, Order, OrderItem>>

\* the write of checkout, from the flush of the new order to the commit
CheckoutWrite(user, items) ==
  LET order_id == NextId(Order)
  IN  /\ Order' = Insert(Order, order_id, [user_id |-> user])
      /\ OrderItem' = AddOrderItems(items, order_id, OrderItem)
      /\ CartItem' = Delete(CartItem, ItemsDeleted(items))
      /\ UNCHANGED Product

\* the write of cart_add: item is what the query found (NoItem for None)
CartAddWrite(user, product_id, item) ==
  /\ CartItem' =
       IF item = NoItem
       THEN Insert(CartItem, NextId(CartItem),
                   [user_id |-> user, product_id |-> product_id, quantity |-> 1])
       ELSE [CartItem EXCEPT ![item.id].quantity = item.quantity + 1]
  /\ UNCHANGED <<Product, Order, OrderItem>>

Fail(op, user, id, result) ==
  /\ resp' = Resp(op, 0, 0, result, 0)
  /\ UNCHANGED db

product_new(user, title, category, price) ==
  /\ variant = "A"
  /\ LET price_rupees == parse_int(price, 0)
     IN  IF title = "" \/ category = "" \/ category \notin CATEGORIES
         THEN Fail("product_new", user, 0, "ValidationError")
         ELSE /\ NextId(Product) \in ProductIds
              /\ Product' = Insert(Product, NextId(Product),
                                   [title |-> title, category |-> category,
                                    price_rupees |-> price_rupees, seller_id |-> user])
              /\ UNCHANGED <<CartItem, Order, OrderItem>>
              /\ resp' = Resp("product_new", user, NextId(Product), "ok", 0)
  /\ UNCHANGED <<User, variant, session, req>>

\* product_edit without the seller_id check
product_edit_by_anyone(user, product_id, title, category, price) ==
  /\ variant = "A"
  /\ IF product_id \notin DOMAIN Product
     THEN Fail("product_edit", user, product_id, "NotFound")
     ELSE IF category \notin CATEGORIES
     THEN Fail("product_edit", user, product_id, "ValidationError")
     ELSE /\ Product' = [Product EXCEPT ![product_id] =
                           [title |-> title, category |-> category,
                            price_rupees |-> parse_int(price, 0), seller_id |-> @.seller_id]]
          /\ UNCHANGED <<CartItem, Order, OrderItem>>
          /\ resp' = Resp("product_edit", user, product_id, "ok", 0)
  /\ UNCHANGED <<User, variant, session, req>>

product_edit(user, product_id, title, category, price) ==
  /\ variant = "A"
  /\ IF product_id \notin DOMAIN Product
     THEN Fail("product_edit", user, product_id, "NotFound")
     ELSE IF Product[product_id].seller_id # user
     THEN Fail("product_edit", user, product_id, "NotOwner")
     ELSE IF category \notin CATEGORIES
     THEN Fail("product_edit", user, product_id, "ValidationError")
     ELSE /\ Product' = [Product EXCEPT ![product_id] =
                           [title |-> title, category |-> category,
                            price_rupees |-> parse_int(price, 0), seller_id |-> @.seller_id]]
          /\ UNCHANGED <<CartItem, Order, OrderItem>>
          /\ resp' = Resp("product_edit", user, product_id, "ok", 0)
  /\ UNCHANGED <<User, variant, session, req>>

product_delete(user, product_id) ==
  /\ variant = "A"
  /\ IF product_id \notin DOMAIN Product
     THEN Fail("product_delete", user, product_id, "NotFound")
     ELSE IF Product[product_id].seller_id # user
     THEN Fail("product_delete", user, product_id, "NotOwner")
     ELSE /\ DeleteProduct(product_id)
          /\ resp' = Resp("product_delete", user, product_id, "ok", 0)
  /\ UNCHANGED <<User, variant, session, req>>

cart_view(user) ==
  /\ variant = "A"
  /\ resp' = Resp("cart_view", user, 0, "ok", CartTotal(CartItemsOf(user)))
  /\ UNCHANGED <<db, User, variant, session, req>>

cart_add(user, product_id) ==
  /\ variant = "A"
  /\ IF product_id \notin DOMAIN Product
     THEN Fail("cart_add", user, product_id, "NotFound")
     ELSE LET item == FirstCartItem(user, product_id)
          IN  /\ IF item = NoItem THEN NextId(CartItem) \in ItemIds
                                   ELSE item.quantity < MaxQty
              /\ CartAddWrite(user, product_id, item)
              /\ resp' = Resp("cart_add", user, product_id, "ok", 0)
  /\ UNCHANGED <<User, variant, session, req>>

cart_remove(user, item_id) ==
  /\ variant = "A"
  /\ IF item_id \notin DOMAIN CartItem
     THEN Fail("cart_remove", user, item_id, "NotFound")
     ELSE IF CartItem[item_id].user_id # user
     THEN Fail("cart_remove", user, item_id, "NotOwner")
     ELSE /\ CartItem' = Delete(CartItem, {item_id})
          /\ UNCHANGED <<Product, Order, OrderItem>>
          /\ resp' = Resp("cart_remove", user, item_id, "ok", 0)
  /\ UNCHANGED <<User, variant, session, req>>

checkout(user) ==
  /\ variant = "A"
  /\ LET items == CartItemsOf(user)
     IN  IF items = <<>>
         THEN Fail("checkout", user, 0, "EmptyCart")
         ELSE /\ NextId(Order) \in OrderIds
              /\ CheckoutWrite(user, items)
              /\ resp' = Resp("checkout", user, NextId(Order), "ok", 0)
  /\ UNCHANGED <<User, variant, session, req>>

NextA ==
  \/ \E u \in Sellers, l \in Listings, c \in CategoryInputs :
       product_new(u, l.title, c, l.price)
  \/ \E u \in Users, id \in ProductIds, l \in Listings, c \in CategoryInputs :
       product_edit(u, id, l.title, c, l.price)
  \/ \E u \in Users, id \in ProductIds : product_delete(u, id)
  \/ \E u \in Users : cart_view(u)
  \/ \E u \in Shoppers, id \in ProductIds : cart_add(u, id)
  \/ \E u \in Users, id \in DOMAIN CartItem \cup {NextId(CartItem)} : cart_remove(u, id)
  \/ \E u \in Users : checkout(u)

\* ===================================== variant B: src/ecofinds-backend/app.py

\* get_cart: the list in the session cookie of a browser; a browser is named
\* by the user logged in on it
get_cart(browser) == session[browser]

\* the index of the first cart entry for a product, 0 when there is none
FirstEntry(cart_, product_id) ==
  LET ks == {k \in 1..Len(cart_) : cart_[k].id = product_id}
  IN  IF ks = {} THEN 0 ELSE Min(ks)

\* add_to_cart's for/else: the cart after it
CartAfterAdd(cart_, product_id) ==
  LET k == FirstEntry(cart_, product_id)
  IN  IF k # 0 THEN [cart_ EXCEPT ![k].quantity = @ + 1]
      ELSE Append(cart_, [id |-> product_id, name |-> Product[product_id].name,
                          price |-> Product[product_id].price, quantity |-> 1])

\* the sum of the unit prices of a cart, quantities left out
RECURSIVE SessionTotalOfUnitPrices(_)
SessionTotalOfUnitPrices(cart_) ==
  IF cart_ = <<>> THEN 0
  ELSE Head(cart_).price + SessionTotalOfUnitPrices(Tail(cart_))

\* sum(item["price"] * item.get("quantity", 1) for item in cart)
RECURSIVE SessionTotal(_)
SessionTotal(cart_) ==
  IF cart_ = <<>> THEN 0
  ELSE Head(cart_).price * Head(cart_).quantity + SessionTotal(Tail(cart_))

\* the OrderItem rows checkout adds for a cart
RECURSIVE AddSessionItems(_, _, _)
AddSessionItems(cart_, order_id, table) ==
  IF cart_ = <<>> THEN table
  ELSE AddSessionItems(Tail(cart_), order_id,
         Insert(table, NextId(table),
                [order_id |-> order_id, product_id |-> Head(cart_).id,
                 quantity |-> Head(cart_).quantity, price |-> Head(cart_).price]))

\* checkout of variant B up to db.session.commit()
CheckoutCommit(user, cart_) ==
  LET order_id == NextId(Order)
  IN  /\ Order' = Insert(Order, order_id, [user_id |-> user, total |-> SessionTotal(cart_)])
      /\ OrderItem' = AddSessionItems(cart_, order_id, OrderItem)
      /\ UNCHANGED <<Product, CartItem>>

\* float(request.form.get("price") or 0), in hundredths
to_float(value) == IntOf[IF value = "" THEN "0" ELSE value] * 100

product_form(user, name, category, price) ==
  /\ variant = "B"
  /\ IF name = ""
     THEN Fail("product_form", user, 0, "ValidationError")
     ELSE /\ NextId(Product) \in ProductIds
          /\ Product' = Insert(Product, NextId(Product),
                               [name |-> name, category |-> category,
                                price |-> to_float(price), seller_id |-> user])
          /\ UNCHANGED <<CartItem, Order, OrderItem>>
          /\ resp' = Resp("product_form", user, NextId(Product), "ok", 0)
  /\ UNCHANGED <<User, variant, session, req>>

cart(browser) ==
  /\ variant = "B"
  /\ resp' = Resp("cart", browser, 0, "ok", SessionTotal(get_cart(browser)))
  /\ UNCHANGED <<db, User, variant, session, req>>

add_to_cart(browser, product_id) ==
  /\ variant = "B"
  /\ IF product_id \notin DOMAIN Product
     THEN /\ Fail("add_to_cart", browser, product_id, "NotFound")
          /\ UNCHANGED session
     ELSE /\ LET k == FirstEntry(get_cart(browser), product_id)
             IN  k # 0 => get_cart(browser)[k].quantity < MaxQty
          /\ session' = [session EXCEPT ![browser] = CartAfterAdd(@, product_id)]
          /\ resp' = Resp("add_to_cart", browser, product_id, "ok", 0)
          /\ UNCHANGED db
  /\ UNCHANGED <<User, variant, req>>

remove_from_cart(browser, product_id) ==
  /\ variant = "B"
  /\ session' = [session EXCEPT ![browser] =
                   SelectSeq(@, LAMBDA item : item.id # product_id)]
  /\ resp' = Resp("remove_from_cart", browser, product_id, "ok", 0)
  /\ UNCHANGED <<db, User, variant, req>>

checkout_backend(browser) ==
  /\ variant = "B"
  /\ IF get_cart(browser) = <<>>
     THEN /\ Fail("checkout", browser, 0, "EmptyCart")
          /\ UNCHANGED session
     ELSE /\ NextId(Order) \in OrderIds
          /\ CheckoutCommit(browser, get_cart(browser))
          /\ resp' = Resp("checkout", browser, NextId(Order), "ok", 0)
          /\ session' = [session EXCEPT ![browser] = <<>>]
  /\ UNCHANGED <<User, variant, req>>

NextB ==
  \/ \E u \in Sellers, l \in Listings, c \in CategoryInputs :
       product_form(u, l.title, c, l.price)
  \/ \E b \in Users : cart(b)
  \/ \E b \in Shoppers, id \in ProductIds : add_to_cart(b, id)
  \/ \E b \in Users, id \in ProductIds : remove_from_cart(b, id)
  \/ \E b \in Users : checkout_backend(b)

\* the user table once the users of a run have signed up
Accounts ==
  IF variant = "A"
  THEN (1 :> [email |-> <<"a">>, username |-> <<"n">>,
              password_hash |-> generate_password_hash("p")])
       @@ (2 :> [email |-> <<"b">>, username |-> <<"m">>,
                 password_hash |-> generate_password_hash("p")])
  ELSE SeedUser
       @@ (2 :> [email |-> <<"a">>, name |-> <<"n">>,
                 password_hash |-> generate_password_hash("p")])

Init ==
  /\ variant \in {"A", "B"}
  /\ User = Accounts
  /\ Product = IF variant = "A" THEN Empty ELSE SeedProduct
  /\ CartItem = Empty
  /\ session = [s \in Users |-> <<>>]
  /\ Order = Empty
  /\ OrderItem = Empty
  /\ resp = Resp("start", 0, 0, "ok", 0)
  /\ req = Idle

Next == NextA \/ NextB

Spec == Init /\ [][Next]_vars

\* ======================================================= interleaved requests
\* Requests run in threads, one database connection each.  SQLite commits
\* one write transaction at a time, and the driver opens the transaction at
\* the first INSERT, UPDATE or DELETE: the queries a handler makes before it
\* read the committed state of their moment, and everything from the first
\* write to the commit is one step.  The response follows the commit; in
\* variant B it carries the session cookie, which the browser keeps from then.
\* req[s] is the request of thread s: what it has read and where it is.

Begin(s, r) == req[s] = NoReq /\ req' = [req EXCEPT ![s] = r]
Done(s) == req' = [req EXCEPT ![s] = NoReq]
ToRespond(s, cart_, response) ==
  req' = [req EXCEPT ![s] = [pc |-> "respond", op |-> req[s].pc, user |-> req[s].user,
                             read |-> req[s].read, cart |-> cart_, resp |-> response]]

\* checkout of variant A up to the query of the cart items
checkout_read(s, user) ==
  /\ variant = "A"
  /\ req[s] = NoReq
  /\ LET items == CartItemsOf(user)
     IN  IF items = <<>>
         THEN Fail("checkout", user, 0, "EmptyCart") /\ UNCHANGED req
         ELSE /\ Begin(s, [pc |-> "checkout", user |-> user, read |-> items])
              /\ UNCHANGED <<db, resp>>
  /\ UNCHANGED <<User, variant, session>>

\* checkout of variant A from the flush of the order to the commit
checkout_write(s) ==
  /\ variant = "A"
  /\ req[s].pc = "checkout"
  /\ NextId(Order) \in ConcOrderIds
  /\ CheckoutWrite(req[s].user, req[s].read)
  /\ ToRespond(s, <<>>, Resp("checkout", req[s].user, NextId(Order), "ok", 0))
  /\ UNCHANGED <<User, variant, session, resp>>

\* cart_add up to the query of the cart item
cart_add_read(s, user, product_id) ==
  /\ variant = "A"
  /\ req[s] = NoReq
  /\ IF product_id \notin DOMAIN Product
     THEN Fail("cart_add", user, product_id, "NotFound") /\ UNCHANGED req
     ELSE LET item == FirstCartItem(user, product_id)
          IN  /\ item # NoItem => item.quantity < MaxQty
              /\ Begin(s, [pc |-> "cart_add", user |-> user,
                           read |-> [product_id |-> product_id, item |-> item]])
              /\ UNCHANGED <<db, resp>>
  /\ UNCHANGED <<User, variant, session>>

\* cart_add from its UPDATE or INSERT to the commit; an UPDATE that finds
\* its row gone raises, and the request ends in a server error
cart_add_write(s) ==
  /\ variant = "A"
  /\ req[s].pc = "cart_add"
  /\ LET item == req[s].read.item
         product_id == req[s].read.product_id
     IN  IF item # NoItem /\ item.id \notin DOMAIN CartItem
         THEN /\ UNCHANGED db
              /\ ToRespond(s, <<>>, Resp("cart_add", 0, 0, "ServerError", 0))
         ELSE /\ item = NoItem => NextId(CartItem) \in ItemIds
              /\ CartAddWrite(req[s].user, product_id, item)
              /\ ToRespond(s, <<>>, Resp("cart_add", req[s].user, product_id, "ok", 0))
  /\ UNCHANGED <<User, variant, session, resp>>

\* add_to_cart of variant B: the request, with the cookie the browser holds
add_to_cart_read(s, browser, product_id) ==
  /\ variant = "B"
  /\ req[s] = NoReq
  /\ IF product_id \notin DOMAIN Product
     THEN Fail("add_to_cart", browser, product_id, "NotFound") /\ UNCHANGED req
     ELSE /\ LET k == FirstEntry(get_cart(browser), product_id)
             IN  k # 0 => get_cart(browser)[k].quantity < MaxQty
          /\ req' = [req EXCEPT ![s] =
                       [pc |-> "respond", op |-> "add_to_cart", user |-> browser,
                        read |-> get_cart(browser),
                        cart |-> CartAfterAdd(get_cart(browser), product_id),
                        resp |-> Resp("add_to_cart", browser, product_id, "ok", 0)]]
          /\ UNCHANGED <<db, resp>>
  /\ UNCHANGED <<User, variant, session>>

\* checkout of variant B: the request, with the cookie the browser holds
checkout_backend_read(s, browser) ==
  /\ variant = "B"
  /\ req[s] = NoReq
  /\ IF get_cart(browser) = <<>>
     THEN Fail("checkout", browser, 0, "EmptyCart") /\ UNCHANGED req
     ELSE /\ Begin(s, [pc |-> "checkout", user |-> browser, read |-> get_cart(browser)])
          /\ UNCHANGED <<db, resp>>
  /\ UNCHANGED <<User, variant, session>>

\* checkout of variant B up to db.session.commit()
checkout_backend_commit(s) ==
  /\ variant = "B"
  /\ req[s].pc = "checkout"
  /\ NextId(Order) \in ConcOrderIds
  /\ CheckoutCommit(req[s].user, req[s].read)
  /\ ToRespond(s, <<>>, Resp("checkout", req[s].user, NextId(Order), "ok", 0))
  /\ UNCHANGED <<User, variant, session, resp>>

\* the response of a request reaches the browser; in variant B with the
\* session cookie the handler saved
respond(s) ==
  /\ req[s].pc = "respond"
  /\ resp' = req[s].resp
  /\ session' = IF variant = "B" THEN [session EXCEPT ![req[s].user] = req[s].cart]
                ELSE session
  /\ Done(s)
  /\ UNCHANGED <<db, User, variant>>

NextConc ==
  \/ \E u \in Sellers : product_new(u, "a", "Other", "1")
  \/ \E u \in Shoppers, id \in DOMAIN CartItem : cart_remove(u, id)
  \/ \E s \in Slots, u \in Shoppers : checkout_read(s, u)
  \/ \E s \in Slots : checkout_write(s)
  \/ \E s \in Slots, u \in Shoppers : cart_add_read(s, u, FirstId)
  \/ \E s \in Slots : cart_add_write(s)
  \/ \E b \in Shoppers : remove_from_cart(b, FirstId)
  \/ \E s \in Slots, b \in Shoppers : add_to_cart_read(s, b, FirstId)
  \/ \E s \in Slots, b \in Shoppers : checkout_backend_read(s, b)
  \/ \E s \in Slots : checkout_backend_commit(s)
  \/ \E s \in Slots : respond(s)

SpecConc == Init /\ [][NextConc]_vars

\* ==================================================================== signup
\* str.lower() and str.strip() on the characters of a text
LowerOf == ("A" :> "a") @@ ("B" :> "b") @@ ("D" :> "d")
lower(text) ==
  [k \in 1..Len(text) |-> IF text[k] \in DOMAIN LowerOf THEN LowerOf[text[k]] ELSE text[k]]

RECURSIVE lstrip(_)
lstrip(text) ==
  IF text # <<>> /\ Head(text) = " " THEN lstrip(Tail(text)) ELSE text

RECURSIVE rstrip(_)
rstrip(text) ==
  IF text # <<>> /\ text[Len(text)] = " " THEN rstrip(SubSeq(text, 1, Len(text) - 1))
  ELSE text

strip(text) == rstrip(lstrip(text))

\* the email a signup form is taken to name
FormEmail(email) == IF variant = "A" THEN strip(lower(email)) ELSE lower(strip(email))

\* User.query.filter_by(email=email).first(), and the unique index on email
EmailTaken(email) == \E u \in DOMAIN User : User[u].email = email

\* User(email=..., username=... / name=...) with set_password
NewUser(email, name, password) ==
  IF variant = "A"
  THEN [email |-> email, username |-> name,
        password_hash |-> generate_password_hash(password)]
  ELSE [email |-> email, name |-> name,
        password_hash |-> generate_password_hash(password)]

\* signup that adds the account without looking for the email
signup_without_lookup(email_, name_, password) ==
  /\ LET email == FormEmail(email_)
         name == strip(name_)
     IN  IF email = <<>> \/ name = <<>> \/ password = ""
         THEN Fail("signup", 0, 0, "ValidationError") /\ User' = User
         ELSE /\ NextId(User) \in AccountIds
              /\ User' = Insert(User, NextId(User), NewUser(email, name, password))
              /\ resp' = Resp("signup", NextId(User), 0, "ok", 0)
              /\ UNCHANGED db
  /\ UNCHANGED <<variant, session, req>>

signup(email_, name_, password) ==
  /\ LET email == FormEmail(email_)
         name == strip(name_)
     IN  IF email = <<>> \/ name = <<>> \/ password = ""
         THEN Fail("signup", 0, 0, "ValidationError") /\ User' = User
         ELSE IF EmailTaken(email)
         THEN Fail("signup", 0, 0, "DuplicateEmail") /\ User' = User
         ELSE /\ NextId(User) \in AccountIds
              /\ User' = Insert(User, NextId(User), NewUser(email, name, password))
              /\ resp' = Resp("signup", NextId(User), 0, "ok", 0)
              /\ UNCHANGED db
  /\ UNCHANGED <<variant, session, req>>

\* dashboard of variant A: the user changes the username
dashboard(user, username_) ==
  /\ variant = "A"
  /\ user \in DOMAIN User
  /\ LET username == strip(username_)
     IN  IF username = <<>>
         THEN Fail("dashboard", user, 0, "ValidationError") /\ User' = User
         ELSE /\ User' = [User EXCEPT ![user].username = username]
              /\ resp' = Resp("dashboard", user, 0, "ok", 0)
              /\ UNCHANGED db
  /\ UNCHANGED <<variant, session, req>>

\* signup of a request thread up to the query for the email
signup_read(s, browser, email_, name_, password) ==
  /\ req[s] = NoReq
  /\ LET email == FormEmail(email_)
         name == strip(name_)
     IN  IF email = <<>> \/ name = <<>> \/ password = ""
         THEN Fail("signup", 0, 0, "ValidationError") /\ UNCHANGED req
         ELSE IF EmailTaken(email)
         THEN Fail("signup", 0, 0, "DuplicateEmail") /\ UNCHANGED req
         ELSE /\ Begin(s, [pc |-> "signup", user |-> browser,
                           read |-> NewUser(email, name, password)])
              /\ UNCHANGED <<db, resp>>
  /\ UNCHANGED <<User, variant, session>>

\* signup from the INSERT to the commit; the unique index on email turns
\* down a row whose email is in the table by now, and the request ends in
\* a server error
signup_write(s) ==
  /\ req[s].pc = "signup"
  /\ IF EmailTaken(req[s].read.email)
     THEN /\ User' = User
          /\ ToRespond(s, get_cart(req[s].user), Resp("signup", 0, 0, "ServerError", 0))
     ELSE /\ NextId(User) \in AccountIds
          /\ User' = Insert(User, NextId(User), req[s].read)
          /\ ToRespond(s, get_cart(req[s].user), Resp("signup", NextId(User), 0, "ok", 0))
  /\ UNCHANGED <<variant, db, session, resp>>

\* the database as the application first finds it
InitAuth ==
  /\ variant \in {"A", "B"}
  /\ User = IF variant = "A" THEN Empty ELSE SeedUser
  /\ Product = IF variant = "A" THEN Empty ELSE SeedProduct
  /\ CartItem = Empty
  /\ session = [s \in Users |-> <<>>]
  /\ Order = Empty
  /\ OrderItem = Empty
  /\ resp = Resp("start", 0, 0, "ok", 0)
  /\ req = Idle

NextAuth ==
  \/ \E e \in EmailInputs, n \in NameInputs, p \in PasswordInputs : signup(e, n, p)
  \/ \E u \in AccountIds, n \in NameInputs : dashboard(u, n)
  \/ \E s \in Slots, b \in Shoppers, e \in EmailInputs : signup_read(s, b, e, <<"n">>, "p")
  \/ \E s \in Slots : signup_write(s)
  \/ \E s \in Slots : respond(s)

SpecAuth == InitAuth /\ [][NextAuth]_vars

\* ================================================================== properties

\* the rows of a table that a step adds
NewOrders == DOMAIN Order' \ DOMAIN Order
NewOrderItems == DOMAIN OrderItem' \ DOMAIN OrderItem
ItemsOfOrder(order_id) == {l \in DOMAIN OrderItem : OrderItem[l].order_id = order_id}

\* the cart of an owner: the keys of its entries (row ids in variant A,
\* positions of the session list in variant B), and each entry's fields
CartKeys(owner) ==
  IF variant = "A" THEN {i \in DOMAIN CartItem : CartItem[i].user_id = owner}
  ELSE 1..Len(session[owner])
EntryProduct(owner, k) ==
  IF variant = "A" THEN CartItem[k].product_id ELSE session[owner][k].id
EntryQuantity(owner, k) ==
  IF variant = "A" THEN CartItem[k].quantity ELSE session[owner][k].quantity
ValidKeys(owner) == {k \in CartKeys(owner) : EntryProduct(owner, k) \in DOMAIN Product}

\* the catalog's current title and price of a product
TitleOf(product_id) ==
  IF variant = "A" THEN Product[product_id].title ELSE Product[product_id].name
PriceOf(product_id) ==
  IF variant = "A" THEN Product[product_id].price_rupees ELSE Product[product_id].price

\* the checkout request of either application, by owner
Checkout(owner) == checkout(owner) \/ checkout_backend(owner)
CheckoutOk == resp.op = "checkout" /\ resp.result = "ok"

\* C1: checkout on a cart with no valid entry (empty, or every entry's product
\* is gone) answers EmptyCart and adds no Order and no OrderItem.
C1_InvalidCartCreatesNoOrder ==
  [][\A u \in Users :
       (Checkout(u) /\ ValidKeys(u) = {})
         => (resp'.result = "EmptyCart" /\ Order' = Order /\ OrderItem' = OrderItem)]_vars

\* C2: after a successful checkout (one that placed an order with lines) the
\* owner's cart holds no entry at all.
C2_CartEmptyAfterCheckout ==
  (CheckoutOk /\ ItemsOfOrder(resp.id) # {}) => CartKeys(resp.user) = {}

\* C3: a successful checkout adds exactly one Order, of the owner, and exactly
\* one OrderItem per cart entry of the owner whose product exists, with that
\* entry's product and quantity and the product's title and price as the
\* catalog has them at checkout.
LineMatches(owner, k, l) ==
  /\ OrderItem'[l].product_id = EntryProduct(owner, k)
  /\ OrderItem'[l].quantity = EntryQuantity(owner, k)
  /\ IF variant = "A"
     THEN /\ OrderItem'[l].title = TitleOf(EntryProduct(owner, k))
          /\ OrderItem'[l].price_rupees = PriceOf(EntryProduct(owner, k))
     ELSE OrderItem'[l].price = PriceOf(EntryProduct(owner, k))
EntriesRead(r) ==
  IF variant = "A" THEN {r.read[k].id : k \in 1..Len(r.read)}
  ELSE {r.read[k] : k \in 1..Len(r.read)}
CheckoutCommitted(r) ==
  r.pc = "respond" /\ r.op = "checkout" /\ r.resp.result = "ok"

\* C4: of two checkout calls of one owner in flight at once, at most one
\* places an order from a given cart entry.
C4_NoDoubleCheckout ==
  \A s, t \in Slots :
    (s # t /\ CheckoutCommitted(req[s]) /\ CheckoutCommitted(req[t])
     /\ req[s].user = req[t].user)
      => EntriesRead(req[s]) \cap EntriesRead(req[t]) = {}

\* C5: the step that makes an Order visible makes all of its OrderItems
\* visible with it and leaves none of the cart entries it was built from in
\* the owner's cart.
BuiltFrom(r) ==
  IF variant = "A" THEN ItemsDeleted(r.read) ELSE {r.read[k] : k \in 1..Len(r.read)}
CartEntriesAfter(owner) ==
  IF variant = "A" THEN {i \in DOMAIN CartItem' : CartItem'[i].user_id = owner}
  ELSE {session'[owner][k] : k \in 1..Len(session'[owner])}
C5_CheckoutAllOrNothing ==
  [][\A s \in Slots :
       (checkout_write(s) \/ checkout_backend_commit(s))
         => /\ Cardinality(NewOrders) = 1
            /\ Cardinality(NewOrderItems) = Cardinality(BuiltFrom(req[s]))
            /\ BuiltFrom(req[s]) \cap CartEntriesAfter(req[s].user) = {}]_vars

C7_OneEntryPerProduct ==
  \A u \in Users : \A j, k \in CartKeys(u) :
    /\ EntryProduct(u, j) = EntryProduct(u, k) => j = k
    /\ EntryQuantity(u, k) >= 1

\* C8: the total the cart page shows is the sum of current catalog price times
\* quantity over the owner's entries whose product exists.
LiveAmount(owner, k) == PriceOf(EntryProduct(owner, k)) * EntryQuantity(owner, k)
RECURSIVE LiveSum(_, _)
LiveSum(owner, keys) ==
  IF keys = {} THEN 0
  ELSE LET k == CHOOSE x \in keys : TRUE
       IN  LiveAmount(owner, k) + LiveSum(owner, keys \ {k})
C8_TotalIsLiveSum ==
  resp.op \in {"cart_view", "cart"}
    => resp.total = LiveSum(resp.user, ValidKeys(resp.user))
C8_Witness ==
  /\ resp.op = "cart_view"
  /\ resp.total = 4
  /\ \E i \in CartKeys(resp.user) : CartItem[i].product_id \notin DOMAIN Product

\* C9: update or delete of a product by a user who is not its seller answers
\* NotOwner and leaves the product table as it was; a step never changes the
\* seller of a product, and a new product belongs to the user who created it.
C9_OnlyOwnerChangesProduct ==
  [][/\ \A u \in Users, id \in DOMAIN Product :
          (/\ Product[id].seller_id # u
           /\ \/ product_delete(u, id)
              \/ \E l \in Listings, c \in CategoryInputs :
                   product_edit(u, id, l.title, c, l.price))
            => (resp'.result = "NotOwner" /\ Product' = Product)
     /\ \A id \in DOMAIN Product' :
          IF id \in DOMAIN Product
          THEN Product'[id].seller_id = Product[id].seller_id \/ resp'.op = "product_delete"
          ELSE /\ resp'.op \in {"product_new", "product_form"}
               /\ Product'[id].seller_id = resp'.user]_vars
C9_Witness ==
  /\ resp.op \in {"product_edit", "product_delete"}
  /\ resp.result = "NotOwner"
  /\ \E id \in DOMAIN Product : Product[id].seller_id = 1 /\ Product[id].title = "b"

\* C10: a successful delete of a product leaves no cart entry, of any owner,
\* that references the deleted product.
C10_DeleteCascadesToCarts ==
  (resp.op = "product_delete" /\ resp.result = "ok")
    => \A i \in DOMAIN CartItem : CartItem[i].product_id # resp.id

\* C10 as the code has it: a successful delete of a product removes the
\* product row only; every cart entry, also one that references the deleted
\* product, stays in its cart unchanged.
C10_DeleteLeavesCarts ==
  [][\A u \in Users, id \in ProductIds :
       (product_delete(u, id) /\ resp'.result = "ok")
         => (id \notin DOMAIN Product' /\ CartItem' = CartItem /\ session' = session)]_vars
C10_Witness ==
  /\ resp.op = "product_delete" /\ resp.result = "ok"
  /\ \E i \in DOMAIN CartItem : CartItem[i].product_id = resp.id /\ CartItem[i].quantity = 2

\* the category list of the running application
FixedCategories == IF variant = "A" THEN CATEGORIES ELSE CATEGORIES_B

\* a product creation through either application's form
Create(owner, title, category, price) ==
  product_new(owner, title, category, price) \/ product_form(owner, title, category, price)

\* C11: a product creation whose category is outside the fixed category set
\* answers ValidationError and leaves the product table as it was, and in
\* every reachable state the category of every product row is in the set.
C11_InvalidCategoryRejected ==
  /\ [](\A p \in DOMAIN Product : Product[p].category \in FixedCategories)
  /\ [][\A u \in Sellers, l \in Listings, c \in CategoryInputs :
          (c \notin FixedCategories /\ Create(u, l.title, c, l.price))
            => (resp'.result = "ValidationError" /\ Product' = Product)]_vars

\* the sum of price times quantity over a set of order_item rows (variant B)
RECURSIVE OrderLineSum(_)
OrderLineSum(lines) ==
  IF lines = {} THEN 0
  ELSE LET l == Min(lines)
       IN  OrderItem[l].price * OrderItem[l].quantity + OrderLineSum(lines \ {l})

\* C12: in every reachable state the total stored with an order equals the
\* sum of price times quantity over the order's lines.  Only variant B stores
\* a total; the order table of variant A has no such column.
C12_OrderTotalIsLineSum ==
  variant = "B" =>
    \A o \in DOMAIN Order : Order[o].total = OrderLineSum(ItemsOfOrder(o))

\* an order of two lines, one of them of quantity two
C12_Witness ==
  /\ variant = "B"
  /\ \E o \in DOMAIN Order :
       /\ Cardinality(ItemsOfOrder(o)) = 2
       /\ \E l \in ItemsOfOrder(o) : OrderItem[l].quantity = 2
       /\ Order[o].total > 0

\* no two accounts have emails that are equal once put in lower case
EmailsUnique ==
  \A u, v \in DOMAIN User : u # v => lower(User[u].email) # lower(User[v].email)

\* the email of a form is, in lower case, the email of an account
NamesAccount(email) == \E u \in DOMAIN User : lower(User[u].email) = lower(email)

\* C13 as stated: a signup whose email, case put aside, is the email of an
\* account answers DuplicateEmail, adds no user and leaves every account as it
\* was; and in every reachable state no two accounts share an email, case put
\* aside.
C13_DuplicateEmailRejected ==
  /\ []EmailsUnique
  /\ [][\A e \in EmailInputs, n \in NameInputs, p \in PasswordInputs :
          (signup(e, n, p) /\ NamesAccount(e))
            => (resp'.result = "DuplicateEmail" /\ User' = User)]_vars

\* C13, amended: a signup with a name and a password filled in whose email,
\* case put aside, is the email of an account answers DuplicateEmail; a signup
\* with such an email and an empty name or password answers ValidationError;
\* either way the user table stays as it was; and in every reachable state no
\* two accounts share an email, case put aside.
C13_DuplicateEmailRejectedWhenFilled ==
  /\ []EmailsUnique
  /\ [][\A e \in EmailInputs, n \in NameInputs, p \in PasswordInputs :
          (signup(e, n, p) /\ NamesAccount(e))
            => /\ User' = User
               /\ resp'.result = IF strip(n) = <<>> \/ p = "" THEN "ValidationError"
                                 ELSE "DuplicateEmail"]_vars

\* a signup turned down for its email, with two accounts in the table
C13_Witness ==
  /\ resp.op = "signup" /\ resp.result = "DuplicateEmail"
  /\ Cardinality(DOMAIN User) = 2
  /\ \E u \in DOMAIN User : User[u].email = <<"a">>
====
